---------------------------- MODULE Spec2Model ----------------------------
(***************************************************************************)
(* Pairwise sequence alignment (seq-align): the alignment matrix, the      *)
(* Needleman-Wunsch global aligner and the Smith-Waterman local aligner,   *)
(* as a state machine that steps through one call of needleman_wunsch or   *)
(* best_smith_waterman: matrix construction, the staircase fill (one cell  *)
(* per step), and the traceback (one loop iteration per step).             *)
(*                                                                         *)
(* usize values are kept as integers; a negative integer x stands for the  *)
(* wrapped value 2^64 + x that a release build produces on underflow, and  *)
(* the unsigned comparisons below treat it as larger than every in-range   *)
(* value.  A debug build panics at the subtraction instead; both outcomes  *)
(* are modelled wherever a subtraction can underflow.                      *)
(***************************************************************************)
EXTENDS Integers, Sequences, FiniteSets, TLC

(* ------------------------------ bounds -------------------------------- *)

\* Longest input sequence drawn for either side.
MaxLen == 3

\* Largest height and width drawn for a matrix built by zeroed directly.
MaxDim == 2

\* Bits of a usize: index arithmetic is modulo 2^UsizeBits (64 in the build,
\* scaled down here; every index of the alignment calls is far below it).
UsizeBits == 8

\* Scores written into a matrix through set.
ScoreArgs == {0, 1}

\* Symbols the input sequences are drawn from (gap-free inputs).
Letters == {"A", "B"}

\* Weights drawn for the three scores of a config: the defaults and the
\* weights of the tests (1, -1, -2 and 1, -1, -1), and values of either sign
\* around them.
MatchWeights == {-1, 1, 2}

MismatchWeights == {-1, 1}

GapWeights == {-2, -1, 0, 1}

(* ------------------------------ letter.rs ----------------------------- *)

GAP == "-"

\* Option<Letter>::normalize_letter over slice.get(i): GAP when i is out of range.
normalize_letter(seq, i) ==
    IF i >= 0 /\ i < Len(seq) THEN seq[i + 1] ELSE GAP

(* ------------------------------ matrix.rs ----------------------------- *)

None == [some |-> FALSE, val |-> 0]
Some(v) == [some |-> TRUE, val |-> v]

\* vec![v; n]
Repeat(v, n) == [k \in 1..n |-> v]

zeroed(height, width) == [buf |-> Repeat(0, height * width), width |-> width]

width(m) == m.width

\* Variant of height that counts one row more.
height_plus_one(m) == Len(m.buf) \div width(m) + 1

height(m) == Len(m.buf) \div width(m)

UsizeModulus == 2 ^ UsizeBits

\* i * width + j does not fit a usize: a panic with overflow checks on, a
\* wrapped product with them off.
pack_index_overflows(m, i, j) ==
    j >= 0 /\ j < m.width /\ i * m.width + j >= UsizeModulus

\* Unsigned j >= width: a wrapped (negative) j is out of range.  The packed
\* index is computed in usize arithmetic.
pack_index(m, i, j) ==
    IF j < 0 \/ j >= m.width THEN None
    ELSE Some((i * m.width + j) % UsizeModulus)

\* Variant of unpack_index that divides by the height instead of the width.
unpack_index_by_height(m, index) ==
    <<index \div height(m), index % height(m)>>

\* Variant of unpack_index with the quotient and the remainder exchanged.
unpack_index_swapped(m, index) == <<index % m.width, index \div m.width>>

unpack_index(m, index) == <<index \div m.width, index % m.width>>

\* buf.get(packed): a wrapped (negative) packed index is past the buffer.
get_ref(m, i, j) ==
    LET packed == pack_index(m, i, j)
    IN  IF ~packed.some THEN None
        ELSE IF packed.val >= 0 /\ packed.val < Len(m.buf)
             THEN Some(m.buf[packed.val + 1])
             ELSE None

\* The slot get_mut refers to (its place in buf), if any.
get_mut(m, i, j) ==
    LET packed == pack_index(m, i, j)
    IN  IF ~packed.some THEN None
        ELSE IF packed.val >= 0 /\ packed.val < Len(m.buf)
             THEN Some(packed.val + 1)
             ELSE None

get(m, i, j) == get_ref(m, i, j)

\* set: the matrix after the call and the flag returned.
set(m, i, j, score) ==
    LET ref_mut == get_mut(m, i, j)
    IN  IF ref_mut.some
        THEN [matrix |-> [m EXCEPT !.buf = [@ EXCEPT ![ref_mut.val] = score]],
              ok |-> TRUE]
        ELSE [matrix |-> m, ok |-> FALSE]

\* m[[i, j]] is defined (does not reach invalid_index).
ValidIndex(m, i, j) == get_ref(m, i, j).some

\* m[[i, j]] where ValidIndex holds.
Index(m, i, j) == get_ref(m, i, j).val

\* m[[i, j]] = score where ValidIndex holds.
IndexMut(m, i, j, score) ==
    [m EXCEPT !.buf = [@ EXCEPT ![pack_index(m, i, j).val + 1] = score]]

Max2(a, b) == IF a >= b THEN a ELSE b

\* Iterator::max of a non-empty sequence of scores.
SeqMax(s) ==
    CHOOSE v \in {s[k] : k \in 1..Len(s)} : \A k \in 1..Len(s) : s[k] <= v

\* AlignmentMatrix::max: None for an empty buffer.
max(m) == IF Len(m.buf) = 0 THEN None ELSE Some(SeqMax(m.buf))

\* Iterator::min of a non-empty sequence of scores.
SeqMin(s) ==
    CHOOSE v \in {s[k] : k \in 1..Len(s)} : \A k \in 1..Len(s) : v <= s[k]

\* AlignmentMatrix::min: None for an empty buffer.
min(m) == IF Len(m.buf) = 0 THEN None ELSE Some(SeqMin(m.buf))

\* Iterator::max_by_key over enumerate() from position k on, best being the
\* element kept so far: the fold keeps the later of two elements whose keys
\* compare equal, so the last of several maxima is returned.
RECURSIVE max_by_key(_, _, _)
max_by_key(s, k, best) ==
    IF k > Len(s) THEN best
    ELSE max_by_key(s, k + 1, IF s[best + 1] > s[k] THEN best ELSE k - 1)

\* Iterator::min_by_key likewise: the fold keeps the earlier of two elements
\* whose keys compare equal, so the first of several minima is returned.
RECURSIVE min_by_key(_, _, _)
min_by_key(s, k, best) ==
    IF k > Len(s) THEN best
    ELSE min_by_key(s, k + 1, IF s[best + 1] > s[k] THEN k - 1 ELSE best)

argmax(m) ==
    IF Len(m.buf) = 0 THEN None
    ELSE Some(unpack_index(m, max_by_key(m.buf, 2, 0)))

argmin(m) ==
    IF Len(m.buf) = 0 THEN None
    ELSE Some(unpack_index(m, min_by_key(m.buf, 2, 0)))

\* The filter of argmax_many: the buffer indices holding mx, in buffer
\* order, each unpacked.
\* Variant of FilterMax that leaves out the cells of row 0 and column 0.
FilterMax_interior(m, mx) ==
    LET indices == SelectSeq([k \in 1..Len(m.buf) |-> k - 1],
                             LAMBDA index : /\ m.buf[index + 1] = mx
                                            /\ index >= m.width
                                            /\ index % m.width # 0)
    IN  [k \in 1..Len(indices) |-> unpack_index(m, indices[k])]

FilterMax(m, mx) ==
    LET indices == SelectSeq([k \in 1..Len(m.buf) |-> k - 1],
                             LAMBDA index : m.buf[index + 1] = mx)
    IN  [k \in 1..Len(indices) |-> unpack_index(m, indices[k])]

\* Variant of argmax_many that stops at the first maximal cell, as argmax does.
argmax_many_first(m) ==
    LET maybe_max == max(m)
    IN  IF maybe_max.some
        THEN <<FilterMax(m, maybe_max.val)[1]>>
        ELSE <<>>

argmax_many(m) ==
    LET maybe_max == max(m)
    IN  IF maybe_max.some THEN FilterMax(m, maybe_max.val) ELSE <<>>


(* ------------------------------ state --------------------------------- *)

VARIABLES
    row_seq,        \* input displayed as rows
    column_seq,     \* input displayed as columns
    config,         \* match_penalty / mismatch_penalty / gap_penalty
    pc,             \* position inside the running call
    matrix,         \* the AlignmentMatrix of the call
    base_i,         \* staircase fill: first row not yet swept
    base_j,         \* staircase fill: first column not yet swept
    fill_k,         \* staircase fill: loop variable of the running sweep
    current_i,      \* traceback position, row
    current_j,      \* traceback position, column
    result,         \* result under construction (letters in push order)
    results,        \* best_smith_waterman: results pushed so far
    maxima,         \* best_smith_waterman: argmax_many() being iterated
    max_k,          \* best_smith_waterman: maxima consumed so far
    panic           \* "none", or the kind of panic that ended the call

vars == <<row_seq, column_seq, config, pc, matrix, base_i, base_j, fill_k,
          current_i, current_j, result, results, maxima, max_k, panic>>

inputs == <<row_seq, column_seq, config>>

Seqs == UNION {[1..n -> Letters] : n \in 0..MaxLen}

\* Shorter column sequences holding one more symbol, drawn against the row
\* sequences of that length: both letters of a mismatch can then differ from
\* the letters of a later match.
MixedSeqs ==
    {s \in [1..(MaxLen - 1) -> Letters \cup {"C"}] :
        \E k \in 1..(MaxLen - 1) : s[k] = "C"}

Configs == [match_penalty : MatchWeights, mismatch_penalty : MismatchWeights,
            gap_penalty : GapWeights]

NoResult == [score |-> 0]

\* The inputs of the unit tests: global.rs simple_what_why_with_gap and
\* multiple_inner_gaps, local.rs easy_case.
TestCases ==
    { <<<<"W", "H", "A", "T">>, <<"W", "H", "Y">>,
        [match_penalty |-> 1, mismatch_penalty |-> -1, gap_penalty |-> -2]>>,
      <<<<"G", "C", "A", "T", "G", "C", "G">>,
        <<"G", "A", "T", "T", "A", "C", "A">>,
        [match_penalty |-> 1, mismatch_penalty |-> -1, gap_penalty |-> -1]>>,
      <<<<"G", "G", "T", "T", "G", "A", "C", "T", "A">>,
        <<"T", "G", "T", "T", "A", "C", "G", "G">>,
        [match_penalty |-> 3, mismatch_penalty |-> -3, gap_penalty |-> -2]>> }

Inputs ==
    (Seqs \X Seqs \X Configs)
        \cup ([1..(MaxLen - 1) -> Letters] \X MixedSeqs \X Configs)
        \cup TestCases

Init ==
    /\ \E input \in Inputs :
          /\ row_seq = input[1]
          /\ column_seq = input[2]
          /\ config = input[3]
    /\ pc = "start"
    /\ matrix = zeroed(0, 0)
    /\ base_i = 0
    /\ base_j = 0
    /\ fill_k = 0
    /\ current_i = 0
    /\ current_j = 0
    /\ result = NoResult
    /\ results = <<>>
    /\ maxima = <<>>
    /\ max_k = 0
    /\ panic = "none"

\* A panic ends the call where it stands: nothing is returned, and no
\* step follows (every step requires panic = "none").
Panic(kind) ==
    /\ pc' = pc
    /\ panic' = kind

(* --------------------- global.rs: matrix fill ------------------------- *)

RECURSIVE fill_nw_row(_, _, _, _)
fill_nw_row(m, gap_penalty, j, last) ==
    IF j > last THEN m
    ELSE fill_nw_row(IndexMut(m, 0, j, j * gap_penalty), gap_penalty, j + 1, last)

RECURSIVE fill_nw_column(_, _, _, _)
fill_nw_column(m, gap_penalty, i, last) ==
    IF i > last THEN m
    ELSE fill_nw_column(IndexMut(m, i, 0, i * gap_penalty), gap_penalty, i + 1, last)

\* Variant of fill_nw_matrix_base that leaves row 0 at zero.
fill_nw_matrix_base_column_only(row, col, cfg, m) ==
    fill_nw_column(m, cfg.gap_penalty, 1, Len(row))

fill_nw_matrix_base(row, col, cfg, m) ==
    fill_nw_column(fill_nw_row(m, cfg.gap_penalty, 1, Len(col)),
                   cfg.gap_penalty, 1, Len(row))

\* The three reads and the write of compute_*_matrix_cell stay inside the matrix.
CellInBounds(m, pred_i, pred_j) ==
    /\ ValidIndex(m, pred_i, pred_j)
    /\ ValidIndex(m, pred_i, pred_j + 1)
    /\ ValidIndex(m, pred_i + 1, pred_j)
    /\ ValidIndex(m, pred_i + 1, pred_j + 1)

\* Variant of nw_cell_score with the match and mismatch weights exchanged.
nw_cell_score_swapped(row, col, cfg, m, pred_i, pred_j) ==
    LET top_left == Index(m, pred_i, pred_j)
        top == Index(m, pred_i, pred_j + 1)
        left == Index(m, pred_i + 1, pred_j)
        row_letter == normalize_letter(row, pred_i)
        column_letter == normalize_letter(col, pred_j)
        no_gap_penalty == IF row_letter = column_letter
                          THEN cfg.mismatch_penalty
                          ELSE cfg.match_penalty
        no_gap_score == top_left + no_gap_penalty
        best_gap_score == Max2(top, left) + cfg.gap_penalty
    IN  Max2(best_gap_score, no_gap_score)

\* Variant of nw_cell_score whose gap move looks at the top neighbour only.
nw_cell_score_top_only(row, col, cfg, m, pred_i, pred_j) ==
    LET top_left == Index(m, pred_i, pred_j)
        top == Index(m, pred_i, pred_j + 1)
        row_letter == normalize_letter(row, pred_i)
        column_letter == normalize_letter(col, pred_j)
        no_gap_penalty == IF row_letter = column_letter
                          THEN cfg.match_penalty
                          ELSE cfg.mismatch_penalty
        no_gap_score == top_left + no_gap_penalty
        best_gap_score == top + cfg.gap_penalty
    IN  Max2(best_gap_score, no_gap_score)

nw_cell_score(row, col, cfg, m, pred_i, pred_j) ==
    LET top_left == Index(m, pred_i, pred_j)
        top == Index(m, pred_i, pred_j + 1)
        left == Index(m, pred_i + 1, pred_j)
        row_letter == normalize_letter(row, pred_i)
        column_letter == normalize_letter(col, pred_j)
        no_gap_penalty == IF row_letter = column_letter
                          THEN cfg.match_penalty
                          ELSE cfg.mismatch_penalty
        no_gap_score == top_left + no_gap_penalty
        best_gap_score == Max2(top, left) + cfg.gap_penalty
    IN  Max2(best_gap_score, no_gap_score)

\* Variant of compute_nw_matrix_cell that stores the score in the
\* predecessor cell.
compute_nw_matrix_cell_at_pred(row, col, cfg, m, pred_i, pred_j) ==
    IndexMut(m, pred_i, pred_j,
             nw_cell_score(row, col, cfg, m, pred_i, pred_j))

compute_nw_matrix_cell(row, col, cfg, m, pred_i, pred_j) ==
    IndexMut(m, pred_i + 1, pred_j + 1,
             nw_cell_score(row, col, cfg, m, pred_i, pred_j))

\* local.rs: the cell of the Smith-Waterman recurrence, clamped at 0.
\* Variant of sw_cell_score without the clamp at 0.
sw_cell_score_unclamped(row, col, cfg, m, pred_i, pred_j) ==
    LET top_left == Index(m, pred_i, pred_j)
        top == Index(m, pred_i, pred_j + 1)
        left == Index(m, pred_i + 1, pred_j)
        row_letter == normalize_letter(row, pred_i)
        column_letter == normalize_letter(col, pred_j)
        no_gap_penalty == IF row_letter = column_letter
                          THEN cfg.match_penalty
                          ELSE cfg.mismatch_penalty
        no_gap_score == top_left + no_gap_penalty
        best_gap_score == Max2(top, left) + cfg.gap_penalty
    IN  Max2(best_gap_score, no_gap_score)

sw_cell_score(row, col, cfg, m, pred_i, pred_j) ==
    LET top_left == Index(m, pred_i, pred_j)
        top == Index(m, pred_i, pred_j + 1)
        left == Index(m, pred_i + 1, pred_j)
        row_letter == normalize_letter(row, pred_i)
        column_letter == normalize_letter(col, pred_j)
        no_gap_penalty == IF row_letter = column_letter
                          THEN cfg.match_penalty
                          ELSE cfg.mismatch_penalty
        no_gap_score == top_left + no_gap_penalty
        best_gap_score == Max2(top, left) + cfg.gap_penalty
    IN  Max2(Max2(best_gap_score, no_gap_score), 0)

compute_sw_matrix_cell(row, col, cfg, m, pred_i, pred_j) ==
    IndexMut(m, pred_i + 1, pred_j + 1,
             sw_cell_score(row, col, cfg, m, pred_i, pred_j))

\* Loop head of fill_*_matrix_content: break, or start the sweep of row base_i.
\* Variant of FillLoopHead that starts the row sweep one column late.
FillLoopHead_late(row_pc, filled_pc, bj) ==
    IF bj >= Len(column_seq)
    THEN pc' = filled_pc /\ fill_k' = fill_k
    ELSE pc' = row_pc /\ fill_k' = bj + 1

FillLoopHead(row_pc, filled_pc, bj) ==
    IF bj >= Len(column_seq)
    THEN pc' = filled_pc /\ fill_k' = fill_k
    ELSE pc' = row_pc /\ fill_k' = bj

\* One call of compute_*_matrix_cell in the row sweep (for j in base_j .. len),
\* followed by the loop bookkeeping when the sweep ends.  Taken at row_pc.
FillRowCell(row_pc, col_pc, filled_pc, local) ==
    /\ IF ~CellInBounds(matrix, base_i, fill_k)
       THEN /\ Panic("invalid_index")
            /\ UNCHANGED <<matrix, base_i, base_j, fill_k>>
       ELSE /\ matrix' =
                 IF local
                 THEN compute_sw_matrix_cell(row_seq, column_seq, config, matrix,
                                             base_i, fill_k)
                 ELSE compute_nw_matrix_cell(row_seq, column_seq, config, matrix,
                                             base_i, fill_k)
            /\ panic' = panic
            /\ base_j' = base_j
            /\ IF fill_k + 1 < Len(column_seq)
               THEN /\ fill_k' = fill_k + 1
                    /\ base_i' = base_i
                    /\ pc' = pc
               ELSE /\ base_i' = base_i + 1
                    /\ IF base_i + 1 >= Len(row_seq)
                       THEN pc' = filled_pc /\ fill_k' = fill_k
                       ELSE pc' = col_pc /\ fill_k' = base_i + 1
    /\ UNCHANGED <<inputs, current_i, current_j, result, results, maxima, max_k>>

\* One call of compute_*_matrix_cell in the column sweep (for i in base_i .. len),
\* followed by the loop bookkeeping when the sweep ends.  Taken at col_pc.
FillColumnCell(row_pc, col_pc, filled_pc, local) ==
    /\ IF ~CellInBounds(matrix, fill_k, base_j)
       THEN /\ Panic("invalid_index")
            /\ UNCHANGED <<matrix, base_i, base_j, fill_k>>
       ELSE /\ matrix' =
                 IF local
                 THEN compute_sw_matrix_cell(row_seq, column_seq, config, matrix,
                                             fill_k, base_j)
                 ELSE compute_nw_matrix_cell(row_seq, column_seq, config, matrix,
                                             fill_k, base_j)
            /\ panic' = panic
            /\ base_i' = base_i
            /\ IF fill_k + 1 < Len(row_seq)
               THEN /\ fill_k' = fill_k + 1
                    /\ base_j' = base_j
                    /\ pc' = pc
               ELSE /\ base_j' = base_j + 1
                    /\ FillLoopHead(row_pc, filled_pc, base_j + 1)
    /\ UNCHANGED <<inputs, current_i, current_j, result, results, maxima, max_k>>

\* compute_nw_matrix up to the first cell of fill_nw_matrix_content: the
\* matrix is allocated and its base row and column are filled.
compute_nw_matrix ==
    /\ pc = "start"
    /\ panic = "none"
    /\ matrix' = fill_nw_matrix_base(row_seq, column_seq, config,
                    zeroed(Len(row_seq) + 1, Len(column_seq) + 1))
    /\ base_i' = 0
    /\ base_j' = 0
    /\ FillLoopHead("nw_fill_row", "nw_filled", 0)
    /\ UNCHANGED <<inputs, current_i, current_j, result, results, maxima,
                   max_k, panic>>

fill_nw_matrix_content_row ==
    /\ pc = "nw_fill_row"
    /\ panic = "none"
    /\ FillRowCell("nw_fill_row", "nw_fill_col", "nw_filled", FALSE)

fill_nw_matrix_content_column ==
    /\ pc = "nw_fill_col"
    /\ panic = "none"
    /\ FillColumnCell("nw_fill_row", "nw_fill_col", "nw_filled", FALSE)

(* --------------------- global.rs: traceback --------------------------- *)

Reverse(s) == [k \in 1..Len(s) |-> s[Len(s) + 1 - k]]

\* The step chosen at (i, j) by lines 95-111: Top, else Left, else TopLeft.
\* Asked only where matrix[[i, j]] is a valid index.
\* Variant of nw_traceback_step that tries Left before Top.
nw_traceback_step_left_first(m, cfg, i, j) ==
    LET current_score == Index(m, i, j)
    IN  IF j # 0 /\ ValidIndex(m, i, j - 1)
           /\ current_score = Index(m, i, j - 1) + cfg.gap_penalty
        THEN "Left"
        ELSE IF i # 0 /\ ValidIndex(m, i - 1, j)
                /\ current_score = Index(m, i - 1, j) + cfg.gap_penalty
        THEN "Top"
        ELSE "TopLeft"

nw_traceback_step(m, cfg, i, j) ==
    LET current_score == Index(m, i, j)
    IN  IF i # 0 /\ ValidIndex(m, i - 1, j)
           /\ current_score = Index(m, i - 1, j) + cfg.gap_penalty
        THEN "Top"
        ELSE IF j # 0 /\ ValidIndex(m, i, j - 1)
                /\ current_score = Index(m, i, j - 1) + cfg.gap_penalty
        THEN "Left"
        ELSE "TopLeft"

\* Variant of traceback_nw_top_left that counts every diagonal step as an
\* identity.
traceback_nw_top_left_no_compare(row, col, res, i, j) ==
    [res EXCEPT
        !.aligned_row_seq = Append(@, normalize_letter(row, i)),
        !.aligned_column_seq = Append(@, normalize_letter(col, j)),
        !.identity_denom = @ + 1,
        !.identity_numer = @ + 1]

traceback_nw_top_left(row, col, res, i, j) ==
    LET row_letter == normalize_letter(row, i)
        column_letter == normalize_letter(col, j)
    IN  [res EXCEPT
            !.aligned_row_seq = Append(@, row_letter),
            !.aligned_column_seq = Append(@, column_letter),
            !.identity_denom = @ + 1,
            !.identity_numer =
                IF row_letter = column_letter /\ row_letter # GAP
                THEN @ + 1 ELSE @]

\* Variant of traceback_nw_top that pushes nothing on the column side.
traceback_nw_top_no_gap(row, res, i) ==
    [res EXCEPT
        !.aligned_row_seq = Append(@, normalize_letter(row, i))]

traceback_nw_top(row, res, i) ==
    [res EXCEPT
        !.aligned_row_seq = Append(@, normalize_letter(row, i)),
        !.aligned_column_seq = Append(@, GAP)]

\* Variant of traceback_nw_left that pushes the letter and the gap on the
\* wrong sides.
traceback_nw_left_swapped(col, res, j) ==
    [res EXCEPT
        !.aligned_row_seq = Append(@, normalize_letter(col, j)),
        !.aligned_column_seq = Append(@, GAP)]

traceback_nw_left(col, res, j) ==
    [res EXCEPT
        !.aligned_row_seq = Append(@, GAP),
        !.aligned_column_seq = Append(@, normalize_letter(col, j))]

\* Lines 82-92: start at the bottom-right cell with an empty result.
traceback_nw_begin ==
    /\ pc = "nw_filled"
    /\ panic = "none"
    /\ LET i == height(matrix) - 1
           j == width(matrix) - 1
       IN  /\ current_i' = i
           /\ current_j' = j
           /\ IF ValidIndex(matrix, i, j)
              THEN /\ result' = [aligned_row_seq |-> <<>>,
                                 aligned_column_seq |-> <<>>,
                                 score |-> Index(matrix, i, j),
                                 identity_numer |-> 0,
                                 identity_denom |-> 0]
                   /\ pc' = "nw_traceback"
                   /\ panic' = panic
              ELSE /\ Panic("invalid_index")
                   /\ result' = result
    /\ UNCHANGED <<inputs, matrix, base_i, base_j, fill_k, results, maxima, max_k>>

\* One iteration of the loop of lines 94-134.  A usize decrement of 0 panics
\* with overflow checks on and wraps with them off.
traceback_nw_step ==
    /\ pc = "nw_traceback"
    /\ panic = "none"
    /\ current_i # 0 \/ current_j # 0
    /\ IF ~ValidIndex(matrix, current_i, current_j)
       THEN /\ Panic("invalid_index")
            /\ UNCHANGED <<current_i, current_j, result>>
       ELSE LET step == nw_traceback_step(matrix, config, current_i, current_j)
                underflow == \/ step = "TopLeft" /\ (current_i = 0 \/ current_j = 0)
                             \/ step = "Top" /\ current_i = 0
                             \/ step = "Left" /\ current_j = 0
                i == IF step = "Left" THEN current_i ELSE current_i - 1
                j == IF step = "Top" THEN current_j ELSE current_j - 1
            IN  \E overflow_checks \in (IF underflow THEN BOOLEAN ELSE {FALSE}) :
                  IF overflow_checks
                  THEN /\ Panic("overflow")
                       /\ UNCHANGED <<current_i, current_j, result>>
                  ELSE /\ current_i' = i
                       /\ current_j' = j
                       /\ result' =
                            CASE step = "TopLeft" ->
                                   traceback_nw_top_left(row_seq, column_seq, result, i, j)
                              [] step = "Top" ->
                                   traceback_nw_top(row_seq, result, i)
                              [] step = "Left" ->
                                   traceback_nw_left(column_seq, result, j)
                       /\ UNCHANGED <<pc, panic>>
    /\ UNCHANGED <<inputs, matrix, base_i, base_j, fill_k, results, maxima, max_k>>

\* Lines 136-141: the loop has ended; reverse both sides and floor the
\* denominator, then return.
traceback_nw_finish ==
    /\ pc = "nw_traceback"
    /\ panic = "none"
    /\ current_i = 0 /\ current_j = 0
    /\ result' = [result EXCEPT
                    !.aligned_row_seq = Reverse(@),
                    !.aligned_column_seq = Reverse(@),
                    !.identity_denom = Max2(@, 1)]
    /\ pc' = "nw_done"
    /\ UNCHANGED <<inputs, matrix, base_i, base_j, fill_k, current_i, current_j,
                   results, maxima, max_k, panic>>

(* ---------------------- local.rs: matrix fill ------------------------- *)

\* compute_sw_matrix up to the first cell of fill_sw_matrix_content: the
\* matrix is allocated, all zero.
compute_sw_matrix ==
    /\ pc = "start"
    /\ panic = "none"
    /\ matrix' = zeroed(Len(row_seq) + 1, Len(column_seq) + 1)
    /\ base_i' = 0
    /\ base_j' = 0
    /\ FillLoopHead("sw_fill_row", "sw_filled", 0)
    /\ UNCHANGED <<inputs, current_i, current_j, result, results, maxima,
                   max_k, panic>>

fill_sw_matrix_content_row ==
    /\ pc = "sw_fill_row"
    /\ panic = "none"
    /\ FillRowCell("sw_fill_row", "sw_fill_col", "sw_filled", TRUE)

fill_sw_matrix_content_column ==
    /\ pc = "sw_fill_col"
    /\ panic = "none"
    /\ FillColumnCell("sw_fill_row", "sw_fill_col", "sw_filled", TRUE)

(* ---------------------- local.rs: traceback --------------------------- *)

traceback_sw_top_left(row, col, res, i, j) ==
    LET row_letter == normalize_letter(row, i)
        column_letter == normalize_letter(col, j)
    IN  [res EXCEPT
            !.aligned_row_seq.start = @ - 1,
            !.aligned_row_seq.data = Append(@, row_letter),
            !.aligned_column_seq.start = @ - 1,
            !.aligned_column_seq.data = Append(@, column_letter),
            !.identity_denom = @ + 1,
            !.identity_numer =
                IF row_letter = column_letter /\ row_letter # GAP
                THEN @ + 1 ELSE @]

\* Variant of traceback_sw_top that leaves the window start where it is.
traceback_sw_top_keeps_start(row, res, i) ==
    [res EXCEPT
        !.aligned_row_seq.data = Append(@, normalize_letter(row, i)),
        !.aligned_column_seq.data = Append(@, GAP)]

traceback_sw_top(row, res, i) ==
    [res EXCEPT
        !.aligned_row_seq.start = @ - 1,
        !.aligned_row_seq.data = Append(@, normalize_letter(row, i)),
        !.aligned_column_seq.data = Append(@, GAP)]

traceback_sw_left(col, res, j) ==
    [res EXCEPT
        !.aligned_row_seq.data = Append(@, GAP),
        !.aligned_column_seq.start = @ - 1,
        !.aligned_column_seq.data = Append(@, normalize_letter(col, j))]

\* The step chosen at (i, j) by lines 123-139: Top, else Left, else TopLeft.
\* Asked only where matrix[[i, j]] is a valid index.
sw_traceback_step(m, cfg, i, j) ==
    LET current_score == Index(m, i, j)
    IN  IF i # 0 /\ ValidIndex(m, i - 1, j)
           /\ current_score = Index(m, i - 1, j) + cfg.gap_penalty
        THEN "Top"
        ELSE IF j # 0 /\ ValidIndex(m, i, j - 1)
                /\ current_score = Index(m, i, j - 1) + cfg.gap_penalty
        THEN "Left"
        ELSE "TopLeft"

\* Lines 100-101: the maximal cells are collected once, before any traceback.
traceback_sw_begin ==
    /\ pc = "sw_filled"
    /\ panic = "none"
    /\ results' = <<>>
    /\ maxima' = argmax_many(matrix)
    /\ max_k' = 0
    /\ pc' = "sw_next"
    /\ UNCHANGED <<inputs, matrix, base_i, base_j, fill_k, current_i, current_j,
                   result, panic>>

\* Lines 101-120: the next maximal cell starts a fresh result.
traceback_sw_next ==
    /\ pc = "sw_next"
    /\ panic = "none"
    /\ max_k < Len(maxima)
    /\ LET max_i == maxima[max_k + 1][1]
           max_j == maxima[max_k + 1][2]
       IN  /\ current_i' = max_i
           /\ current_j' = max_j
           /\ IF ValidIndex(matrix, max_i, max_j)
              THEN /\ result' =
                        [aligned_row_seq |->
                            [start |-> max_i, end |-> max_i, data |-> <<>>],
                         aligned_column_seq |->
                            [start |-> max_j, end |-> max_j, data |-> <<>>],
                         score |-> Index(matrix, max_i, max_j),
                         identity_numer |-> 0,
                         identity_denom |-> 0]
                   /\ pc' = "sw_traceback"
                   /\ panic' = panic
              ELSE /\ Panic("invalid_index")
                   /\ result' = result
    /\ max_k' = max_k + 1
    /\ UNCHANGED <<inputs, matrix, base_i, base_j, fill_k, results, maxima>>

\* Lines 122-161: the loop test and the step chosen by the Top / Left /
\* TopLeft rule.
traceback_sw_step ==
    /\ pc = "sw_traceback"
    /\ panic = "none"
    /\ IF ~ValidIndex(matrix, current_i, current_j)
       THEN /\ Panic("invalid_index")
            /\ UNCHANGED <<current_i, current_j, result>>
       ELSE /\ Index(matrix, current_i, current_j) # 0
            /\ LET step == sw_traceback_step(matrix, config, current_i, current_j)
                   underflow ==
                       \/ step = "TopLeft" /\ (current_i = 0 \/ current_j = 0)
                       \/ step = "Top" /\ current_i = 0
                       \/ step = "Left" /\ current_j = 0
                   i == IF step = "Left" THEN current_i ELSE current_i - 1
                   j == IF step = "Top" THEN current_j ELSE current_j - 1
               IN  \E overflow_checks \in (IF underflow THEN BOOLEAN ELSE {FALSE}) :
                     IF overflow_checks
                     THEN /\ Panic("overflow")
                          /\ UNCHANGED <<current_i, current_j, result>>
                     ELSE /\ current_i' = i
                          /\ current_j' = j
                          /\ result' =
                               CASE step = "TopLeft" ->
                                      traceback_sw_top_left(row_seq, column_seq,
                                                            result, i, j)
                                 [] step = "Top" ->
                                      traceback_sw_top(row_seq, result, i)
                                 [] step = "Left" ->
                                      traceback_sw_left(column_seq, result, j)
                          /\ pc' = "sw_second"
                          /\ panic' = panic
    /\ UNCHANGED <<inputs, matrix, base_i, base_j, fill_k, results, maxima, max_k>>

\* The step chosen at (i, j) by lines 163-187 from the three neighbours.
\* Asked only where all three are valid indices.
sw_second_step(m, i, j) ==
    LET top_left == Index(m, i - 1, j - 1)
        top == Index(m, i - 1, j)
        left == Index(m, i, j - 1)
        maximum == Max2(Max2(top_left, top), left)
    IN  IF i # 0 /\ j # 0 /\ (top_left = maximum \/ top_left = 0)
        THEN "TopLeft"
        ELSE IF i # 0 /\ (top = maximum \/ top = 0)
        THEN "Top"
        ELSE "Left"

\* Lines 163-187: the neighbours of the cell just reached are read and a
\* second step is taken, in the same loop iteration.  current_i - 1 and
\* current_j - 1 are computed with no test of current_i or current_j: at 0
\* the subtraction panics with overflow checks on, and with them off the
\* wrapped index is rejected by the matrix (invalid_index).
traceback_sw_second_step ==
    /\ pc = "sw_second"
    /\ panic = "none"
    /\ IF current_i = 0 \/ current_j = 0
       THEN /\ \E kind \in {"overflow", "invalid_index"} : Panic(kind)
            /\ UNCHANGED <<current_i, current_j, result>>
       ELSE IF ~ (/\ ValidIndex(matrix, current_i - 1, current_j - 1)
                  /\ ValidIndex(matrix, current_i - 1, current_j)
                  /\ ValidIndex(matrix, current_i, current_j - 1))
       THEN /\ Panic("invalid_index")
            /\ UNCHANGED <<current_i, current_j, result>>
       ELSE LET step == sw_second_step(matrix, current_i, current_j)
                i == IF step = "Left" THEN current_i ELSE current_i - 1
                j == IF step = "Top" THEN current_j ELSE current_j - 1
            IN  /\ current_i' = i
                /\ current_j' = j
                /\ result' =
                     CASE step = "TopLeft" ->
                            traceback_sw_top_left(row_seq, column_seq, result, i, j)
                       [] step = "Top" ->
                            traceback_sw_top(row_seq, result, i)
                       [] step = "Left" ->
                            traceback_sw_left(column_seq, result, j)
                /\ pc' = "sw_traceback"
                /\ panic' = panic
    /\ UNCHANGED <<inputs, matrix, base_i, base_j, fill_k, results, maxima, max_k>>

\* Variant of traceback_sw_finish that does not floor the denominator.
traceback_sw_finish_no_floor ==
    /\ pc = "sw_traceback"
    /\ panic = "none"
    /\ ValidIndex(matrix, current_i, current_j)
    /\ Index(matrix, current_i, current_j) = 0
    /\ LET finished == [result EXCEPT
                            !.aligned_row_seq.data = Reverse(@),
                            !.aligned_column_seq.data = Reverse(@)]
       IN  /\ result' = finished
           /\ results' = Append(results, finished)
    /\ pc' = "sw_next"
    /\ UNCHANGED <<inputs, matrix, base_i, base_j, fill_k, current_i, current_j,
                   maxima, max_k, panic>>

\* Lines 190-194: the loop has ended at a zero cell; the result is reversed,
\* its denominator floored, and pushed.
traceback_sw_finish ==
    /\ pc = "sw_traceback"
    /\ panic = "none"
    /\ ValidIndex(matrix, current_i, current_j)
    /\ Index(matrix, current_i, current_j) = 0
    /\ LET finished == [result EXCEPT
                            !.aligned_row_seq.data = Reverse(@),
                            !.aligned_column_seq.data = Reverse(@),
                            !.identity_denom = Max2(@, 1)]
       IN  /\ result' = finished
           /\ results' = Append(results, finished)
    /\ pc' = "sw_next"
    /\ UNCHANGED <<inputs, matrix, base_i, base_j, fill_k, current_i, current_j,
                   maxima, max_k, panic>>

\* Line 196: every maximal cell has been traced; results is returned.
traceback_sw_return ==
    /\ pc = "sw_next"
    /\ panic = "none"
    /\ max_k = Len(maxima)
    /\ pc' = "sw_done"
    /\ UNCHANGED <<inputs, matrix, base_i, base_j, fill_k, current_i, current_j,
                   result, results, maxima, max_k, panic>>

(* --------------------------- specification ---------------------------- *)

Next ==
    \/ compute_nw_matrix
    \/ fill_nw_matrix_content_row
    \/ fill_nw_matrix_content_column
    \/ traceback_nw_begin
    \/ traceback_nw_step
    \/ traceback_nw_finish
    \/ compute_sw_matrix
    \/ fill_sw_matrix_content_row
    \/ fill_sw_matrix_content_column
    \/ traceback_sw_begin
    \/ traceback_sw_next
    \/ traceback_sw_step
    \/ traceback_sw_second_step
    \/ traceback_sw_finish
    \/ traceback_sw_return

Spec == Init /\ [][Next]_vars

(* ----------------------- the matrix used directly ---------------------- *)

\* Indices passed to get and set: in range, just past the range, and large
\* enough for i * width to leave the usize range.
IndexArgs == (0..(MaxDim + 1)) \cup {UsizeModulus \div 2, UsizeModulus - 1}

\* A matrix fresh from zeroed(height, width); no alignment call is running.
MatrixInit ==
    /\ \E h \in 0..MaxDim, w \in 0..MaxDim : matrix = zeroed(h, w)
    /\ pc = "zeroed"
    /\ row_seq = <<>>
    /\ column_seq = <<>>
    /\ config = [match_penalty |-> 1, mismatch_penalty |-> -1, gap_penalty |-> -2]
    /\ base_i = 0
    /\ base_j = 0
    /\ fill_k = 0
    /\ current_i = 0
    /\ current_j = 0
    /\ result = [call |-> "zeroed", value |-> 0]
    /\ results = <<>>
    /\ maxima = <<>>
    /\ max_k = 0
    /\ panic = "none"

InMatrix == pc \in {"zeroed", "written"}

\* A call of get(i, j); result holds what it returned.
matrix_get ==
    /\ InMatrix
    /\ panic = "none"
    /\ \E i \in IndexArgs, j \in IndexArgs :
         \E overflow_checks \in
                (IF pack_index_overflows(matrix, i, j) THEN BOOLEAN ELSE {FALSE}) :
           IF overflow_checks
           THEN /\ Panic("overflow")
                /\ result' = result
           ELSE /\ result' = [call |-> "get", value |-> get(matrix, i, j)]
                /\ UNCHANGED <<pc, panic>>
    /\ UNCHANGED <<inputs, matrix, base_i, base_j, fill_k, current_i, current_j,
                   results, maxima, max_k>>

\* A call of set(i, j, score); result holds the flag it returned.
matrix_set ==
    /\ InMatrix
    /\ panic = "none"
    /\ \E i \in IndexArgs, j \in IndexArgs, score \in ScoreArgs :
         \E overflow_checks \in
                (IF pack_index_overflows(matrix, i, j) THEN BOOLEAN ELSE {FALSE}) :
           IF overflow_checks
           THEN /\ Panic("overflow")
                /\ UNCHANGED <<matrix, result>>
           ELSE /\ matrix' = set(matrix, i, j, score).matrix
                /\ result' = [call |-> "set", value |-> set(matrix, i, j, score).ok]
                /\ pc' = "written"
                /\ panic' = panic
    /\ UNCHANGED <<inputs, base_i, base_j, fill_k, current_i, current_j,
                   results, maxima, max_k>>

\* A call of max(), min(), argmax(), argmin() or argmax_many().
MatrixQuery(call, value) ==
    /\ result' = [call |-> call, value |-> value]
    /\ UNCHANGED <<inputs, pc, matrix, base_i, base_j, fill_k, current_i,
                   current_j, results, maxima, max_k, panic>>

matrix_max ==
    /\ InMatrix
    /\ panic = "none"
    /\ MatrixQuery("max", max(matrix))

matrix_min ==
    /\ InMatrix
    /\ panic = "none"
    /\ MatrixQuery("min", min(matrix))

matrix_argmax ==
    /\ InMatrix
    /\ panic = "none"
    /\ MatrixQuery("argmax", argmax(matrix))

matrix_argmin ==
    /\ InMatrix
    /\ panic = "none"
    /\ MatrixQuery("argmin", argmin(matrix))

matrix_argmax_many ==
    /\ InMatrix
    /\ panic = "none"
    /\ MatrixQuery("argmax_many", argmax_many(matrix))

MatrixNext ==
    \/ matrix_get
    \/ matrix_set
    \/ matrix_max
    \/ matrix_min
    \/ matrix_argmax
    \/ matrix_argmin
    \/ matrix_argmax_many

SpecMatrix == MatrixInit /\ [][MatrixNext]_vars

(* ------------------------------ properties ---------------------------- *)

\* The running (or ended) call is needleman_wunsch / best_smith_waterman.
InNw == pc \in {"nw_fill_row", "nw_fill_col", "nw_filled", "nw_traceback", "nw_done"}

InSw == pc \in {"sw_fill_row", "sw_fill_col", "sw_filled", "sw_next",
                "sw_traceback", "sw_second", "sw_done"}

Gaps(n) == [k \in 1..n |-> GAP]

StripGaps(s) == SelectSeq(s, LAMBDA x : x # GAP)

GapFree(s) == \A k \in 1..Len(s) : s[k] # GAP

MaxOf(a, b) == IF a >= b THEN a ELSE b

\* Weight of one aligned position.
PairWeight(x, y, cfg) ==
    IF x = GAP \/ y = GAP THEN cfg.gap_penalty
    ELSE IF x = y THEN cfg.match_penalty
    ELSE cfg.mismatch_penalty

\* Sum of the weights of the aligned positions 1..n of a against b.
RECURSIVE RescorePrefix(_, _, _, _)
RescorePrefix(a, b, cfg, n) ==
    IF n = 0 THEN 0
    ELSE RescorePrefix(a, b, cfg, n - 1) + PairWeight(a[n], b[n], cfg)

Rescore(a, b, cfg) ==
    RescorePrefix(a, b, cfg, MaxOf(Len(a), Len(b)))

\* Cell (i, j) of the matrix of the running call, by its coordinates.
Cell(i, j) == matrix.buf[i * (Len(column_seq) + 1) + j + 1]

Coords == (0..Len(row_seq)) \X (0..Len(column_seq))

\* v is the matrix-wide maximum.
IsMatrixMax(v) ==
    /\ \A c \in Coords : Cell(c[1], c[2]) <= v
    /\ \E c \in Coords : Cell(c[1], c[2]) = v

MaximalCells == {c \in Coords : IsMatrixMax(Cell(c[1], c[2]))}

\* c comes before d in a row-major scan.
RowMajorBefore(c, d) == c[1] < d[1] \/ (c[1] = d[1] /\ c[2] < d[2])

\* C1: needleman_wunsch is total: for every pair of sequences, empty ones
\* included, the call never panics (it never reaches invalid_index) during
\* fill or traceback.
C1_NeedlemanWunschTotal == InNw => panic = "none"

\* C2: global alignment of an empty row sequence against a non-empty column
\* sequence of length n returns n gaps on the row side, the column sequence
\* on the column side, score n * gap_penalty and identity 0 / 1.
C2_EmptyRowGlobal ==
    (InNw /\ row_seq = <<>> /\ column_seq # <<>>) =>
        /\ panic = "none"
        /\ pc = "nw_done" =>
             /\ result.aligned_row_seq = Gaps(Len(column_seq))
             /\ result.aligned_column_seq = column_seq
             /\ result.score = Len(column_seq) * config.gap_penalty
             /\ result.identity_numer = 0
             /\ result.identity_denom = 1

\* C3: best_smith_waterman is total: for every pair of sequences the call
\* never panics, neither on an index underflow below 0 nor on an
\* out-of-bounds matrix access, during fill or any traceback.
C3_BestSmithWatermanTotal == InSw => panic = "none"

\* C4: for every result of needleman_wunsch on gap-free inputs, summing the
\* gap / match / mismatch weights of the returned aligned pair position by
\* position gives exactly the reported score.
C4_GlobalRescore ==
    (pc = "nw_done" /\ GapFree(row_seq) /\ GapFree(column_seq)) =>
        Rescore(result.aligned_row_seq, result.aligned_column_seq, config)
            = result.score

\* A returned global alignment with a gap, a match and a mismatch in it.
C4_Witness ==
    /\ pc = "nw_done"
    /\ \E k \in 1..Len(result.aligned_row_seq) :
          result.aligned_row_seq[k] = GAP \/ result.aligned_column_seq[k] = GAP
    /\ \E k \in 1..Len(result.aligned_row_seq) :
          /\ result.aligned_row_seq[k] # GAP
          /\ result.aligned_row_seq[k] = result.aligned_column_seq[k]
    /\ \E k \in 1..Len(result.aligned_row_seq) :
          /\ result.aligned_row_seq[k] # GAP
          /\ result.aligned_column_seq[k] # GAP
          /\ result.aligned_row_seq[k] # result.aligned_column_seq[k]

\* C5: for every result of best_smith_waterman on gap-free inputs, summing
\* the gap / match / mismatch weights of the returned aligned data pair
\* position by position gives exactly the reported score.
C5_LocalRescore ==
    (pc = "sw_done" /\ GapFree(row_seq) /\ GapFree(column_seq)) =>
        \A k \in 1..Len(results) :
            Rescore(results[k].aligned_row_seq.data,
                    results[k].aligned_column_seq.data, config)
                = results[k].score

\* C6: round trip of the global alignment: for gap-free inputs, deleting the
\* gap symbols of aligned_row_seq yields row_seq and deleting those of
\* aligned_column_seq yields column_seq.
C6_GlobalRoundTrip ==
    (pc = "nw_done" /\ GapFree(row_seq) /\ GapFree(column_seq)) =>
        /\ StripGaps(result.aligned_row_seq) = row_seq
        /\ StripGaps(result.aligned_column_seq) = column_seq

\* A returned global alignment with gaps on both sides.
C6_Witness ==
    /\ pc = "nw_done"
    /\ ~GapFree(result.aligned_row_seq)
    /\ ~GapFree(result.aligned_column_seq)
    /\ Len(row_seq) >= 2

\* C7: the two aligned sequences returned by needleman_wunsch have the same
\* length L, and max(len(row_seq), len(column_seq)) <= L <=
\* len(row_seq) + len(column_seq).
C7_GlobalLength ==
    pc = "nw_done" =>
        /\ Len(result.aligned_row_seq) = Len(result.aligned_column_seq)
        /\ MaxOf(Len(row_seq), Len(column_seq)) <= Len(result.aligned_row_seq)
        /\ Len(result.aligned_row_seq) <= Len(row_seq) + Len(column_seq)

\* A returned global alignment whose length is strictly between both limits.
C7_Witness ==
    /\ pc = "nw_done"
    /\ MaxOf(Len(row_seq), Len(column_seq)) < Len(result.aligned_row_seq)
    /\ Len(result.aligned_row_seq) < Len(row_seq) + Len(column_seq)

\* C8: every result returned by needleman_wunsch and by best_smith_waterman
\* has identity_numer <= identity_denom and identity_denom >= 1, results
\* whose traceback took no diagonal step included.
C8_IdentityBounds ==
    /\ pc = "nw_done" =>
          /\ result.identity_numer <= result.identity_denom
          /\ result.identity_denom >= 1
    /\ pc = "sw_done" =>
          \A k \in 1..Len(results) :
              /\ results[k].identity_numer <= results[k].identity_denom
              /\ results[k].identity_denom >= 1

\* A returned global alignment made of gap steps only (no diagonal step).
C8_Witness ==
    /\ pc = "nw_done"
    /\ Len(result.aligned_row_seq) >= 2
    /\ \A k \in 1..Len(result.aligned_row_seq) :
          result.aligned_row_seq[k] = GAP \/ result.aligned_column_seq[k] = GAP

\* C9: every result returned by best_smith_waterman has a score equal to the
\* maximum M over all cells of the filled matrix.
C9_LocalScoreIsMax ==
    pc = "sw_done" =>
        \A k \in 1..Len(results) : IsMatrixMax(results[k].score)

\* best_smith_waterman returned a result with a positive score from a matrix
\* that also holds a smaller positive cell.
C9_Witness ==
    /\ pc = "sw_done"
    /\ Len(results) >= 1
    /\ results[1].score > 0
    /\ \E c \in Coords : 0 < Cell(c[1], c[2]) /\ Cell(c[1], c[2]) < results[1].score

\* C10: best_smith_waterman returns exactly one result per maximal cell, in
\* row-major order of those cells: the k-th result ends at the k-th maximal
\* cell of the row-major scan.
C10_OneResultPerMaximalCell ==
    pc = "sw_done" =>
        /\ Len(results) = Cardinality(MaximalCells)
        /\ \A k \in 1..Len(results) :
              LET c == <<results[k].aligned_row_seq.end,
                         results[k].aligned_column_seq.end>>
              IN  /\ c \in MaximalCells
                  /\ Cardinality({d \in MaximalCells : RowMajorBefore(d, c)}) = k - 1

\* best_smith_waterman returned several results tied at a positive maximum.
C10_Witness ==
    /\ pc = "sw_done"
    /\ Len(results) >= 2
    /\ results[1].score > 0

\* The window [start, end) of a locally aligned side is well formed in seq,
\* and the side's data with the gaps removed is that slice of seq.
WindowOf(side, seq) ==
    /\ 0 <= side.start
    /\ side.start <= side.end
    /\ side.end <= Len(seq)
    /\ StripGaps(side.data) = SubSeq(seq, side.start + 1, side.end)

\* C11: every LocalAlignmentResult of best_smith_waterman on gap-free inputs
\* has 0 <= start <= end <= len(sequence) on both sides, and the data of each
\* side with the gaps removed equals sequence[start..end); while a traceback
\* runs, start has been decremented once per symbol of that side consumed.
C11_LocalWindows ==
    (InSw /\ GapFree(row_seq) /\ GapFree(column_seq)) =>
        /\ \A k \in 1..Len(results) :
              /\ WindowOf(results[k].aligned_row_seq, row_seq)
              /\ WindowOf(results[k].aligned_column_seq, column_seq)
        /\ pc \in {"sw_traceback", "sw_second"} =>
              /\ result.aligned_row_seq.start
                    = result.aligned_row_seq.end
                        - Len(StripGaps(result.aligned_row_seq.data))
              /\ result.aligned_column_seq.start
                    = result.aligned_column_seq.end
                        - Len(StripGaps(result.aligned_column_seq.data))

\* best_smith_waterman returned a result whose windows are proper slices of
\* both sequences and whose data holds a gap.
C11_Witness ==
    /\ pc = "sw_done"
    /\ \E k \in 1..Len(results) :
          /\ 0 < results[k].aligned_row_seq.start
          /\ results[k].aligned_row_seq.end < Len(row_seq)
          /\ results[k].aligned_row_seq.start < results[k].aligned_row_seq.end
          /\ 0 < results[k].aligned_column_seq.end
          /\ ~GapFree(results[k].aligned_row_seq.data)
             \/ ~GapFree(results[k].aligned_column_seq.data)

\* The score equalities of the traceback rule at cell (i, j).
UpHolds(i, j) == i > 0 /\ Cell(i, j) = Cell(i - 1, j) + config.gap_penalty

LeftHolds(i, j) == j > 0 /\ Cell(i, j) = Cell(i, j - 1) + config.gap_penalty

\* The step from (i, j) to (i2, j2) is the one the rule Up, else Left, else
\* Diagonal determines at (i, j).
RuleStep(i, j, i2, j2) ==
    IF UpHolds(i, j) THEN i2 = i - 1 /\ j2 = j
    ELSE IF LeftHolds(i, j) THEN i2 = i /\ j2 = j - 1
    ELSE i2 = i - 1 /\ j2 = j - 1

\* The aligned pair pushed by a step from (i, j) to (i2, j2).
PushedPair(i, j, i2, j2) ==
    <<IF i2 < i THEN row_seq[i] ELSE GAP, IF j2 < j THEN column_seq[j] ELSE GAP>>

\* A step of the global traceback loop.
GlobalStep ==
    /\ pc = "nw_traceback"
    /\ pc' = "nw_traceback"
    /\ <<current_i', current_j'>> # <<current_i, current_j>>

\* The result the unit test multiple_inner_gaps expects.
MultipleInnerGaps ==
    (/\ pc = "nw_done"
     /\ row_seq = <<"G", "C", "A", "T", "G", "C", "G">>
     /\ column_seq = <<"G", "A", "T", "T", "A", "C", "A">>
     /\ config = [match_penalty |-> 1, mismatch_penalty |-> -1,
                  gap_penalty |-> -1]) =>
        /\ result.aligned_row_seq = <<"G", "C", "A", "T", "G", "-", "C", "G">>
        /\ result.aligned_column_seq = <<"G", "-", "A", "T", "T", "A", "C", "A">>

\* C12: at cell (i, j) the global traceback goes Up iff i > 0 and
\* score(i, j) = score(i - 1, j) + gap, else Left iff j > 0 and
\* score(i, j) = score(i, j - 1) + gap, else Diagonal, and pushes the pair of
\* that step; the alignment returned is the one this rule determines
\* (GCATG-CG / G-ATTACA for GCATGCG against GATTACA with 1 / -1 / -1).
C12_GlobalTracebackRule ==
    /\ []MultipleInnerGaps
    /\ [][GlobalStep =>
            /\ RuleStep(current_i, current_j, current_i', current_j')
            /\ result'.aligned_row_seq
                 = Append(result.aligned_row_seq,
                          PushedPair(current_i, current_j, current_i', current_j')[1])
            /\ result'.aligned_column_seq
                 = Append(result.aligned_column_seq,
                          PushedPair(current_i, current_j, current_i', current_j')[2])]_vars

\* A global traceback that has taken a step stands at an inner cell where
\* the Up and the Left equality both hold, so the priority decides.
C12_Witness ==
    /\ pc = "nw_traceback"
    /\ Len(result.aligned_row_seq) >= 1
    /\ UpHolds(current_i, current_j)
    /\ LeftHolds(current_i, current_j)
    /\ Cell(current_i, current_j)
         = Cell(current_i - 1, current_j - 1)
             + PairWeight(row_seq[current_i], column_seq[current_j], config)

\* The scores of all global alignments of a[1..i] against b[1..j]: every
\* alignment ends with a diagonal pair, a gap under a[i] or a gap over b[j].
RECURSIVE AlignmentScores(_, _, _, _, _)
AlignmentScores(a, b, cfg, i, j) ==
    IF i = 0 /\ j = 0 THEN {0}
    ELSE (IF i > 0 /\ j > 0
          THEN {s + PairWeight(a[i], b[j], cfg) :
                    s \in AlignmentScores(a, b, cfg, i - 1, j - 1)}
          ELSE {})
         \cup (IF i > 0
               THEN {s + cfg.gap_penalty : s \in AlignmentScores(a, b, cfg, i - 1, j)}
               ELSE {})
         \cup (IF j > 0
               THEN {s + cfg.gap_penalty : s \in AlignmentScores(a, b, cfg, i, j - 1)}
               ELSE {})

\* The largest score of a global alignment of a against b.
BestGlobalScore(a, b, cfg) ==
    LET scores == AlignmentScores(a, b, cfg, Len(a), Len(b))
    IN  CHOOSE s \in scores : \A t \in scores : t <= s

\* Inputs short enough for all their alignments to be enumerated.
Enumerable == Len(row_seq) <= MaxLen + 1 /\ Len(column_seq) <= MaxLen + 1

\* C13: the score reported by needleman_wunsch is optimal: it equals the
\* maximum, over all global alignments of the two sequences, of the sum of
\* the per-position weights.
C13_GlobalScoreOptimal ==
    (pc = "nw_done" /\ Enumerable) =>
        result.score = BestGlobalScore(row_seq, column_seq, config)

\* needleman_wunsch returned for two sequences of two or more letters whose
\* alignments do not all score the same.
C13_Witness ==
    /\ pc = "nw_done"
    /\ Enumerable
    /\ Len(row_seq) >= 2
    /\ Len(column_seq) >= 2
    /\ \E s \in AlignmentScores(row_seq, column_seq, config,
                                Len(row_seq), Len(column_seq)) :
          s < result.score

\* The contiguous substrings of s, the empty one included.
Substrings(s) ==
    {SubSeq(s, a + 1, b) : a \in 0..Len(s), b \in 0..Len(s)}

\* The largest optimal global alignment score over all pairs of contiguous
\* substrings of a and b.
BestLocalScore(a, b, cfg) ==
    LET scores == {BestGlobalScore(x, y, cfg) :
                       x \in Substrings(a), y \in Substrings(b)}
    IN  CHOOSE s \in scores : \A t \in scores : t <= s

\* C14: the score M reported by best_smith_waterman is the best local score,
\* the maximum over all pairs of contiguous (possibly empty) substrings of
\* row_seq and column_seq of the optimal global alignment score of the pair,
\* and the aligned data of every returned result is an alignment of the
\* substring pair of its windows whose weights sum to M.
C14_LocalScoreOptimal ==
    (pc = "sw_done" /\ Enumerable /\ GapFree(row_seq) /\ GapFree(column_seq)) =>
        \A k \in 1..Len(results) :
            /\ results[k].score = BestLocalScore(row_seq, column_seq, config)
            /\ WindowOf(results[k].aligned_row_seq, row_seq)
            /\ WindowOf(results[k].aligned_column_seq, column_seq)
            /\ Rescore(results[k].aligned_row_seq.data,
                       results[k].aligned_column_seq.data, config)
                 = results[k].score

\* Height and width of the matrix the direct calls work on, as zeroed built it.
MatrixWidth == matrix.width

MatrixHeight == IF MatrixWidth = 0 THEN 0 ELSE Len(matrix.buf) \div MatrixWidth

\* The coordinates in range of that matrix, and the score stored at one.
MatrixCoords == (0..(MatrixHeight - 1)) \X (0..(MatrixWidth - 1))

MatrixCell(m, c) == m.buf[c[1] * MatrixWidth + c[2] + 1]

\* C15: get and set are bounds-checked: for a matrix built by zeroed(H, W),
\* get(i, j) returns None and set(i, j, v) returns false and leaves every
\* cell unchanged whenever i >= H or j >= W; for i < H and j < W, set returns
\* true, a following get(i, j) returns v and every other cell keeps its value;
\* the cells of a fresh matrix read 0.  No call panics.
C15_BoundsChecked ==
    InMatrix =>
        /\ panic = "none"
        /\ \A i \in IndexArgs, j \in IndexArgs :
             IF <<i, j>> \in MatrixCoords
             THEN /\ get(matrix, i, j) = Some(MatrixCell(matrix, <<i, j>>))
                  /\ pc = "zeroed" => get(matrix, i, j) = Some(0)
                  /\ \A v \in ScoreArgs :
                       LET after == set(matrix, i, j, v)
                       IN  /\ after.ok
                           /\ get(after.matrix, i, j) = Some(v)
                           /\ after.matrix.width = matrix.width
                           /\ Len(after.matrix.buf) = Len(matrix.buf)
                           /\ \A c \in MatrixCoords \ {<<i, j>>} :
                                MatrixCell(after.matrix, c) = MatrixCell(matrix, c)
             ELSE /\ get(matrix, i, j) = None
                  /\ \A v \in ScoreArgs :
                       LET after == set(matrix, i, j, v)
                       IN  ~after.ok /\ after.matrix = matrix

\* v is the largest score of the matrix the direct calls work on.
IsLargest(v) ==
    /\ \A c \in MatrixCoords : MatrixCell(matrix, c) <= v
    /\ \E c \in MatrixCoords : MatrixCell(matrix, c) = v

LargestCells == {c \in MatrixCoords : IsLargest(MatrixCell(matrix, c))}

\* v is the smallest score of that matrix.
IsSmallest(v) ==
    /\ \A c \in MatrixCoords : v <= MatrixCell(matrix, c)
    /\ \E c \in MatrixCoords : MatrixCell(matrix, c) = v

SmallestCells == {c \in MatrixCoords : IsSmallest(MatrixCell(matrix, c))}

\* C16: argmax_many returns exactly the coordinates (i, j) whose score equals
\* max(), each once, in row-major scan order (increasing i, then increasing
\* j), and returns an empty list only for an empty matrix.
C16_ArgmaxMany ==
    InMatrix =>
        LET many == argmax_many(matrix)
        IN  /\ {many[k] : k \in 1..Len(many)} = LargestCells
            /\ \A k \in 1..Len(many) :
                 /\ max(matrix).some
                 /\ MatrixCell(matrix, many[k]) = max(matrix).val
            /\ \A k \in 1..Len(many), l \in 1..Len(many) :
                 k < l => RowMajorBefore(many[k], many[l])
            /\ many = <<>> <=> Len(matrix.buf) = 0

\* argmax_many() has returned, for a written matrix of two rows or more,
\* several maximal cells of different rows next to a smaller cell.
C16_Witness ==
    /\ pc = "written"
    /\ result.call = "argmax_many"
    /\ result.value = argmax_many(matrix)
    /\ Len(result.value) >= 2
    /\ \E k \in 1..Len(result.value) : result.value[k][1] # result.value[1][1]
    /\ \E c \in MatrixCoords : c \notin LargestCells

\* C17: argmax returns the first maximum in row-major scan order when several
\* cells tie, and argmin the first minimum, so argmax() equals the first
\* element of argmax_many().
C17_ArgmaxFirst ==
    (InMatrix /\ Len(matrix.buf) > 0) =>
        /\ argmax(matrix).some
        /\ argmax(matrix).val \in LargestCells
        /\ \A c \in LargestCells :
             c = argmax(matrix).val \/ RowMajorBefore(argmax(matrix).val, c)
        /\ argmax(matrix).val = argmax_many(matrix)[1]
        /\ argmin(matrix).some
        /\ argmin(matrix).val \in SmallestCells
        /\ \A c \in SmallestCells :
             c = argmin(matrix).val \/ RowMajorBefore(argmin(matrix).val, c)

\* A step of a local traceback: the current cell changes while a traceback
\* of best_smith_waterman runs.
LocalStep ==
    /\ pc \in {"sw_traceback", "sw_second"}
    /\ pc' \in {"sw_traceback", "sw_second"}
    /\ <<current_i', current_j'>> # <<current_i, current_j>>

\* C18: a local traceback stops as soon as the score of the current cell is
\* exactly 0: no step is ever taken out of a cell whose score is 0, so no
\* aligned pair is emitted beyond the first zero cell of the path.
C18_NoStepOutOfZero ==
    [][LocalStep => Cell(current_i, current_j) # 0]_vars

\* C19: every step of a local traceback is chosen by the rule of the global
\* traceback: Up iff score(i, j) = score(i - 1, j) + gap, else Left iff
\* score(i, j) = score(i, j - 1) + gap, else Diagonal, and by no other
\* criterion.
C19_LocalStepsFollowRule ==
    [][LocalStep =>
         RuleStep(current_i, current_j, current_i', current_j')]_vars

\* The matrix of best_smith_waterman is filled.
SwFilled == pc \in {"sw_filled", "sw_next", "sw_traceback", "sw_second", "sw_done"}

\* The next statement of the local traceback reads neighbours of the current
\* cell: the loop body entered at a nonzero cell (lines 123-139), or the
\* reads of lines 163-165.
ReadsNeighbours ==
    \/ /\ pc = "sw_traceback"
       /\ ValidIndex(matrix, current_i, current_j)
       /\ Index(matrix, current_i, current_j) # 0
    \/ pc = "sw_second"

\* C20: in the filled Smith-Waterman matrix every cell with a nonzero score
\* has both coordinates >= 1, and whenever a local traceback reads the
\* top-left, top or left neighbour of its current cell (i, j), i >= 1 and
\* j >= 1 and the score of the current cell is nonzero.
C20_NeighbourReadsInside ==
    /\ SwFilled =>
          \A c \in Coords : Cell(c[1], c[2]) # 0 => (c[1] >= 1 /\ c[2] >= 1)
    /\ (panic = "none" /\ ReadsNeighbours) =>
          /\ current_i >= 1
          /\ current_j >= 1
          /\ Cell(current_i, current_j) # 0

\* The global traceback stands inside the matrix, and on the border the
\* gap test that leads along the border succeeds.
GlobalTracebackInside ==
    pc = "nw_traceback" =>
        /\ panic = "none"
        /\ 0 <= current_i
        /\ current_i <= Len(row_seq)
        /\ 0 <= current_j
        /\ current_j <= Len(column_seq)
        /\ (current_i = 0 /\ current_j > 0) => LeftHolds(current_i, current_j)
        /\ (current_j = 0 /\ current_i > 0) => UpHolds(current_i, current_j)

\* C21: during the global traceback the indices never step past 0: at a cell
\* with i = 0 and j > 0 the Left test succeeds, at a cell with j = 0 and
\* i > 0 the Up test succeeds, a Diagonal step is only ever taken from a cell
\* with i >= 1 and j >= 1, and 0 <= i <= len(row_seq), 0 <= j <=
\* len(column_seq) holds at every step.
C21_GlobalTracebackInside ==
    /\ []GlobalTracebackInside
    /\ [][(GlobalStep /\ current_i' # current_i /\ current_j' # current_j) =>
            (current_i >= 1 /\ current_j >= 1)]_vars

\* A global traceback that began at an inner cell has reached row 0 with
\* columns left to walk.
C21_Witness ==
    /\ pc = "nw_traceback"
    /\ Len(row_seq) >= 2
    /\ Len(result.aligned_row_seq) >= 2
    /\ current_i = 0
    /\ current_j >= 2

\* The global traceback has not walked more steps than the distance from the
\* bottom-right cell to where it stands, it can always go on until (0, 0),
\* and it returns at (0, 0) with the score of the bottom-right cell.
GlobalTracebackProgress ==
    /\ pc \in {"nw_filled", "nw_traceback"} => panic = "none"
    /\ pc = "nw_filled" => ENABLED traceback_nw_begin
    /\ pc = "nw_traceback" =>
          /\ Len(result.aligned_row_seq) + current_i + current_j
                <= Len(row_seq) + Len(column_seq)
          /\ result.score = Cell(Len(row_seq), Len(column_seq))
          /\ IF current_i = 0 /\ current_j = 0
             THEN ENABLED traceback_nw_finish
             ELSE ENABLED traceback_nw_step
    /\ pc = "nw_done" =>
          /\ current_i = 0
          /\ current_j = 0
          /\ Len(result.aligned_row_seq) <= Len(row_seq) + Len(column_seq)
          /\ result.score = Cell(Len(row_seq), Len(column_seq))

\* C22: the global traceback starts at the bottom-right cell
\* (len(row_seq), len(column_seq)), strictly decreases i + j on every step,
\* and ends exactly at cell (0, 0) after at most len(row_seq) +
\* len(column_seq) steps; the reported score is the bottom-right cell's value.
C22_GlobalTracebackTerminates ==
    /\ []GlobalTracebackProgress
    /\ [][(pc = "nw_filled" /\ pc' = "nw_traceback") =>
            /\ current_i' = Len(row_seq)
            /\ current_j' = Len(column_seq)
            /\ result'.aligned_row_seq = <<>>]_vars
    /\ [][GlobalStep =>
            /\ current_i' + current_j' < current_i + current_j
            /\ Len(result'.aligned_row_seq) = Len(result.aligned_row_seq) + 1]_vars
    /\ [][(pc = "nw_traceback" /\ pc' = "nw_done") =>
            (current_i = 0 /\ current_j = 0)]_vars

\* needleman_wunsch returned after a traceback of fewer steps than
\* len(row_seq) + len(column_seq) that took gap steps and diagonal steps.
C22_Witness ==
    /\ pc = "nw_done"
    /\ Len(row_seq) >= 2
    /\ Len(column_seq) >= 2
    /\ Len(result.aligned_row_seq) < Len(row_seq) + Len(column_seq)
    /\ Len(result.aligned_row_seq) > Len(row_seq)
    /\ Len(result.aligned_row_seq) > Len(column_seq)

NwFilled == pc \in {"nw_filled", "nw_traceback", "nw_done"}

\* Weight of aligning row_seq[i - 1] with column_seq[j - 1] (0-based letters
\* of the interior cell (i, j)).
DiagonalWeight(i, j) ==
    IF row_seq[i] = column_seq[j]
    THEN config.match_penalty
    ELSE config.mismatch_penalty

\* The matrix has the Needleman-Wunsch shape, border and recurrence.
NwRecurrence ==
    /\ matrix.width = Len(column_seq) + 1
    /\ Len(matrix.buf) = (Len(row_seq) + 1) * (Len(column_seq) + 1)
    /\ \A j \in 0..Len(column_seq) : Cell(0, j) = j * config.gap_penalty
    /\ \A i \in 0..Len(row_seq) : Cell(i, 0) = i * config.gap_penalty
    /\ \A i \in 1..Len(row_seq) : \A j \in 1..Len(column_seq) :
          Cell(i, j) =
              MaxOf(MaxOf(Cell(i - 1, j - 1) + DiagonalWeight(i, j),
                          Cell(i - 1, j) + config.gap_penalty),
                    Cell(i, j - 1) + config.gap_penalty)

\* C23: after compute_nw_matrix the matrix has (len(row_seq)+1) x
\* (len(column_seq)+1) cells, cell(0, j) = j * gap_penalty, cell(i, 0) =
\* i * gap_penalty, and every interior cell is the maximum of the diagonal,
\* top and left terms of the recurrence, which is the matrix a plain
\* row-major fill of the recurrence produces.
C23_NwMatrixRecurrence == NwFilled => NwRecurrence

\* The fill has returned for sequences of different lengths >= 2, and the
\* bottom-right cell is above what gaps alone would give.
C23_Witness ==
    /\ pc = "nw_filled"
    /\ Len(row_seq) >= 2
    /\ Len(column_seq) > Len(row_seq)
    /\ Cell(Len(row_seq), Len(column_seq))
          > (Len(row_seq) + Len(column_seq)) * config.gap_penalty
    /\ \E i \in 1..Len(row_seq) : \E j \in 1..Len(column_seq) :
          Cell(i, j) > Cell(i - 1, j - 1) + DiagonalWeight(i, j)

RowSweep == pc \in {"nw_fill_row", "sw_fill_row"}

ColumnSweep == pc \in {"nw_fill_col", "sw_fill_col"}

Interior == (1..Len(row_seq)) \X (1..Len(column_seq))

\* The interior cells the staircase fill has computed so far: the finished
\* rows and columns and the swept part of the current row or column.
Computed ==
    IF pc = "start" THEN {}
    ELSE IF RowSweep
    THEN {c \in Interior : \/ c[1] <= base_i
                           \/ c[2] <= base_j
                           \/ (c[1] = base_i + 1 /\ c[2] <= fill_k)}
    ELSE IF ColumnSweep
    THEN {c \in Interior : \/ c[1] <= base_i
                           \/ c[2] <= base_j
                           \/ (c[2] = base_j + 1 /\ c[1] <= fill_k)}
    ELSE Interior

\* The cell the next call of compute_*_matrix_cell writes.
NextCell ==
    IF RowSweep THEN <<base_i + 1, fill_k + 1>> ELSE <<fill_k + 1, base_j + 1>>

\* The top-left, top and left neighbours of a cell.
Neighbours(c) == {<<c[1] - 1, c[2] - 1>>, <<c[1] - 1, c[2]>>, <<c[1], c[2] - 1>>}

OnBorder(c) == c[1] = 0 \/ c[2] = 0

\* The value of the recurrence at interior cell c, from the present matrix.
RecurrenceAt(c) ==
    LET best == MaxOf(MaxOf(Cell(c[1] - 1, c[2] - 1) + DiagonalWeight(c[1], c[2]),
                            Cell(c[1] - 1, c[2]) + config.gap_penalty),
                      Cell(c[1], c[2] - 1) + config.gap_penalty)
    IN  IF InSw THEN MaxOf(0, best) ELSE best

\* A call of compute_*_matrix_cell that returned.
FillStep ==
    /\ (RowSweep \/ ColumnSweep)
    /\ panic' = "none"
    /\ vars' # vars

\* While the fill runs, the computed cells are closed under the three
\* neighbours and, like the border, hold the values of the finished matrix.
ComputedAreFinal ==
    (RowSweep \/ ColumnSweep) =>
        /\ \A c \in Coords :
              OnBorder(c) =>
                  Cell(c[1], c[2]) =
                      IF InSw THEN 0 ELSE (c[1] + c[2]) * config.gap_penalty
        /\ \A c \in Computed :
              /\ \A n \in Neighbours(c) : OnBorder(n) \/ n \in Computed
              /\ Cell(c[1], c[2]) = RecurrenceAt(c)

\* C24: the staircase fill order of fill_nw_matrix_content and
\* fill_sw_matrix_content is a valid topological order: every interior cell
\* is computed exactly once, and when a cell is computed its top-left, top
\* and left neighbours hold their final values (each is a border cell or was
\* computed earlier, and is not written again).
C24_StaircaseOrder ==
    /\ []ComputedAreFinal
    /\ [][pc = "start" => Computed' = {}]_vars
    /\ [][FillStep =>
            /\ NextCell \in Interior
            /\ NextCell \notin Computed
            /\ Computed' = Computed \cup {NextCell}
            /\ \A n \in Neighbours(NextCell) : OnBorder(n) \/ n \in Computed
            /\ matrix'.buf[NextCell[1] * (Len(column_seq) + 1) + NextCell[2] + 1]
                  = RecurrenceAt(NextCell)
            /\ \A c \in Coords \ {NextCell} :
                  matrix'.buf[c[1] * (Len(column_seq) + 1) + c[2] + 1]
                      = Cell(c[1], c[2])]_vars

\* The fill is in its second column sweep, below the second row sweep.
C24_Witness ==
    /\ pc = "sw_fill_col"
    /\ base_j = 1
    /\ base_i = 2
    /\ fill_k = 2
    /\ Cell(2, 2) # 0

\* The matrix has the Smith-Waterman border and clamped recurrence.
SwRecurrence ==
    /\ matrix.width = Len(column_seq) + 1
    /\ Len(matrix.buf) = (Len(row_seq) + 1) * (Len(column_seq) + 1)
    /\ \A j \in 0..Len(column_seq) : Cell(0, j) = 0
    /\ \A i \in 0..Len(row_seq) : Cell(i, 0) = 0
    /\ \A i \in 1..Len(row_seq) : \A j \in 1..Len(column_seq) :
          Cell(i, j) =
              MaxOf(0,
                    MaxOf(Cell(i - 1, j - 1) + DiagonalWeight(i, j),
                          MaxOf(Cell(i - 1, j) + config.gap_penalty,
                                Cell(i, j - 1) + config.gap_penalty)))

\* C25: after compute_sw_matrix every cell of row 0 and column 0 is 0, every
\* interior cell is the maximum of 0 and the diagonal, top and left terms of
\* the recurrence, and so every cell and the matrix-wide maximum are >= 0.
C25_SwMatrixNonNegative ==
    SwFilled =>
        /\ SwRecurrence
        /\ \A c \in Coords : Cell(c[1], c[2]) >= 0
        /\ \A c \in MaximalCells : Cell(c[1], c[2]) >= 0
        /\ max(matrix).some
        /\ max(matrix).val >= 0

\* The fill has returned with a cell clamped to 0 (all three terms negative)
\* and a positive maximum.
C25_Witness ==
    /\ pc = "sw_filled"
    /\ Len(row_seq) >= 2
    /\ Len(column_seq) >= 2
    /\ \E c \in Interior :
          /\ Cell(c[1], c[2]) = 0
          /\ Cell(c[1] - 1, c[2] - 1) + DiagonalWeight(c[1], c[2]) < 0
          /\ Cell(c[1] - 1, c[2]) + config.gap_penalty < 0
          /\ Cell(c[1], c[2] - 1) + config.gap_penalty < 0
    /\ \E c \in Interior : Cell(c[1], c[2]) > 0

\* Number of aligned positions of a against b with no gap on either side.
PairedCount(a, b) ==
    Cardinality({k \in 1..Len(a) : a[k] # GAP /\ b[k] # GAP})

\* Number of those positions whose two symbols are equal.
EqualCount(a, b) ==
    Cardinality({k \in 1..Len(a) : a[k] # GAP /\ b[k] # GAP /\ a[k] = b[k]})

\* The counters of a global or local result, running or returned.
CountersMatch(numer, denom, a, b, floored) ==
    /\ numer = EqualCount(a, b)
    /\ denom = IF floored THEN MaxOf(1, PairedCount(a, b)) ELSE PairedCount(a, b)

IdentityCounters ==
    /\ pc = "nw_traceback" =>
          CountersMatch(result.identity_numer, result.identity_denom,
                        result.aligned_row_seq, result.aligned_column_seq, FALSE)
    /\ pc = "nw_done" =>
          CountersMatch(result.identity_numer, result.identity_denom,
                        result.aligned_row_seq, result.aligned_column_seq, TRUE)
    /\ pc \in {"sw_traceback", "sw_second"} =>
          CountersMatch(result.identity_numer, result.identity_denom,
                        result.aligned_row_seq.data,
                        result.aligned_column_seq.data, FALSE)
    /\ InSw =>
          \A k \in 1..Len(results) :
              CountersMatch(results[k].identity_numer, results[k].identity_denom,
                            results[k].aligned_row_seq.data,
                            results[k].aligned_column_seq.data, TRUE)
    /\ (/\ pc = "nw_done"
        /\ row_seq = <<"W", "H", "A", "T">>
        /\ column_seq = <<"W", "H", "Y">>) =>
          (result.identity_numer = 2 /\ result.identity_denom = 3)

\* A traceback step that moved both indices.
DiagonalStep ==
    /\ GlobalStep \/ LocalStep
    /\ current_i' # current_i
    /\ current_j' # current_j

\* A traceback step that moved one index only.
GapStep ==
    /\ GlobalStep \/ LocalStep
    /\ current_i' = current_i \/ current_j' = current_j

\* C26: the identity counters are accumulated on diagonal traceback steps
\* only, global and local alike: identity_denom is max(1, number of diagonal
\* steps), the number of aligned positions with no gap on either side
\* floored to 1, identity_numer is the number of those steps whose two
\* symbols are equal, and Up and Left steps change neither counter.
C26_IdentityCounters ==
    /\ []IdentityCounters
    /\ [][GapStep =>
            /\ result'.identity_denom = result.identity_denom
            /\ result'.identity_numer = result.identity_numer]_vars
    /\ [][DiagonalStep =>
            /\ result'.identity_denom = result.identity_denom + 1
            /\ result'.identity_numer =
                  result.identity_numer +
                  (IF row_seq[current_i' + 1] = column_seq[current_j' + 1]
                   THEN 1 ELSE 0)]_vars

\* A global result with a gap, an identical pair and a differing pair.
C26_Witness ==
    /\ pc = "nw_done"
    /\ Len(row_seq) <= MaxLen
    /\ result.identity_numer >= 1
    /\ result.identity_denom > result.identity_numer
    /\ Len(result.aligned_row_seq) > result.identity_denom

\* The matrix-wide maximum of the filled Smith-Waterman matrix is 0.
MaxIsZero == SwFilled /\ IsMatrixMax(0)

\* The result of a traceback that starts and ends at cell (i, j).
TrivialResult(i, j) ==
    [aligned_row_seq |-> [start |-> i, end |-> i, data |-> <<>>],
     aligned_column_seq |-> [start |-> j, end |-> j, data |-> <<>>],
     score |-> 0,
     identity_numer |-> 0,
     identity_denom |-> 1]

\* The k-th cell of the matrix in row-major order, k counted from 1.
RowMajorCell(k) ==
    <<(k - 1) \div (Len(column_seq) + 1), (k - 1) % (Len(column_seq) + 1)>>

\* C27: when the Smith-Waterman matrix-wide maximum is 0, best_smith_waterman
\* returns one trivial result per cell, border cells included:
\* (len(row_seq)+1) * (len(column_seq)+1) results in row-major order, each
\* with empty aligned data, start = end = the cell's coordinate on each
\* side, score 0, identity_numer 0 and identity_denom 1.
C27_TrivialResults ==
    MaxIsZero =>
        /\ panic = "none"
        /\ pc # "sw_second"
        /\ pc # "sw_done" => ENABLED Next
        /\ pc \in {"sw_next", "sw_traceback", "sw_done"} =>
              \A k \in 1..Len(results) :
                  results[k] = TrivialResult(RowMajorCell(k)[1], RowMajorCell(k)[2])
        /\ pc = "sw_done" =>
              Len(results) = (Len(row_seq) + 1) * (Len(column_seq) + 1)

\* best_smith_waterman returned for two non-empty sequences without a common
\* symbol under a positive match weight.
C27_Witness ==
    /\ pc = "sw_done"
    /\ MaxIsZero
    /\ Len(row_seq) >= 2
    /\ Len(column_seq) >= 2
    /\ config.match_penalty > 0
    /\ Len(results) = (Len(row_seq) + 1) * (Len(column_seq) + 1)

\* The score needleman_wunsch returned is the best global score of the two
\* sequences taken in the other order, which is what the call with the
\* arguments exchanged reports when it returns.
SameScoreExchanged ==
    (pc = "nw_done" /\ Enumerable) =>
        result.score = BestGlobalScore(column_seq, row_seq, config)

\* C28: the global score is symmetric in its two sequence arguments: for
\* every pair of sequences a, b, empty ones included, and every config,
\* needleman_wunsch(a, b, config) and needleman_wunsch(b, a, config) both
\* return and report the same score.  The inputs are closed under exchanging
\* the two sequences, so both calls of every pair are among the runs.
C28_ScoreSymmetric ==
    InNw => (panic = "none" /\ SameScoreExchanged)

=============================================================================
